---- MODULE Spec2Model ----
(***************************************************************************)
(* Model of the solar-panel payback service.                               *)
(*                                                                         *)
(*   backend/services/electricity.py  Electricity (reference data, grid    *)
(*                                    prices, energy netting, total cost)  *)
(*   backend/services/solar_panel.py  SolarPanelPayback (payback time and  *)
(*                                    optimal-capacity search)             *)
(*   backend/models.py                SolarPanelInput (request validation) *)
(*   backend/main.py                  the two endpoints                    *)
(*                                                                         *)
(* Numbers.  The program computes in binary floating point.  The model     *)
(* computes the same expressions in exact rational arithmetic over finite  *)
(* inputs, extended with the IEEE values -inf, +inf and nan that a         *)
(* division by zero produces.  A number is a record [k, n, d]: k = "fin"   *)
(* is the reduced fraction n/d with d > 0; k = "ninf", "pinf", "nan" are   *)
(* the special values.  Rounding and overflow of finite values are not     *)
(* modelled.  The arithmetic is written as functions so that an operand    *)
(* is evaluated once.                                                      *)
(***************************************************************************)
EXTENDS Integers, Sequences, FiniteSets, TLC

\* ------------------------------------------------------------------------
\* Bounds of the model
\* ------------------------------------------------------------------------

\* longest spreadsheet column (number of rows) the loader is given
MaxSeriesLen == 2

\* values a cell of the wholesale price column ("Euro") can hold
PriceValues == {-500, 500}

\* values a cell of the production profile column can hold
ProductionValues == {0, 8000}

\* values a cell of the consumption profile column can hold
ConsumptionValues == {1}

\* request fields, all accepted by SolarPanelInput (each > 0)
Consumptions == {40}
InstallationCosts == {500, 2000}
Capacities == {5, 20}

\* requests that can be in progress at the same time
Requests == {"r1", "r2"}

\* endpoints
Operations == {"payback_time", "optimal_wp"}

\* ------------------------------------------------------------------------
\* Arithmetic
\* ------------------------------------------------------------------------

Abs(x) == IF x < 0 THEN -x ELSE x

RECURSIVE GCD(_, _)
GCD(a, b) == IF b = 0 THEN a ELSE GCD(b, a % b)

\* the shape of a number
Num == [k : {"fin", "ninf", "pinf", "nan"}, n : Int, d : Int]

\* the fraction n/d (d # 0), reduced, with a positive denominator
Rat[n \in Int, d \in Int] ==
    LET g == GCD(Abs(n), Abs(d))
        s == IF d < 0 THEN -1 ELSE 1
    IN  [k |-> "fin", n |-> (s * n) \div g, d |-> (s * d) \div g]

RInt(i) == [k |-> "fin", n |-> i, d |-> 1]
RZero == RInt(0)
NInf == [k |-> "ninf", n |-> 0, d |-> 1]
PInf == [k |-> "pinf", n |-> 0, d |-> 1]
NaN == [k |-> "nan", n |-> 0, d |-> 1]

\* x + y, -x, x - y, x * y for finite operands
RAdd[x \in Num, y \in Num] == Rat[x.n * y.d + y.n * x.d, x.d * y.d]
RNeg[x \in Num] == [k |-> "fin", n |-> -x.n, d |-> x.d]
RSub[x \in Num, y \in Num] == RAdd[x, RNeg[y]]
RMul[x \in Num, y \in Num] == Rat[x.n * y.n, x.d * y.d]

\* x < y for finite operands
FinLess[x \in Num, y \in Num] == x.n * y.d < y.n * x.d

\* x < y as floating point compares: false whenever an operand is nan
RLess[x \in Num, y \in Num] ==
    CASE x.k = "nan" \/ y.k = "nan" -> FALSE
      [] x.k = "ninf" -> y.k # "ninf"
      [] x.k = "pinf" -> FALSE
      [] y.k = "ninf" -> FALSE
      [] y.k = "pinf" -> TRUE
      [] OTHER -> FinLess[x, y]

\* x == y as floating point compares: false whenever an operand is nan
REq[x \in Num, y \in Num] == x.k # "nan" /\ y.k # "nan" /\ x = y

\* Python's max(0, x)
RMax0[x \in Num] == IF FinLess[RZero, x] THEN x ELSE RZero

\* x / y for finite operands.  The divisor is always annual_savings, which is
\* -1 * total_cost with total_cost a numpy float64 (grid_price is the mean of
\* a float64 column, and every product with it is a float64): the division
\* by zero does not raise.  A zero total_cost is +0.0, so a zero divisor is
\* the float -0.0, and the quotient is -inf, +inf or nan by the sign of x.
RDiv[x \in Num, y \in Num] ==
    IF y.n = 0
    THEN CASE x.n > 0 -> NInf
           [] x.n < 0 -> PInf
           [] OTHER -> NaN
    ELSE Rat[x.n * y.d, x.d * y.n]

RECURSIVE SeqSum(_)
SeqSum(s) == IF s = << >> THEN 0 ELSE Head(s) + SeqSum(Tail(s))

\* the nonempty columns of at most MaxSeriesLen rows over the values V
SeriesOver(V) == UNION {[1..n -> V] : n \in 1..MaxSeriesLen}

\* ------------------------------------------------------------------------
\* State
\* ------------------------------------------------------------------------

VARIABLES
    loaded,              \* ELECTRICITY has been constructed
    production_profile,  \* Electricity.production_profile, the area column
    consumption_profile, \* Electricity.consumption_profile, the area column
    energy_cost,         \* Electricity.energy_cost, the "Euro" column
    grid_price,          \* Electricity.grid_price
    grid_sell_price,     \* Electricity.grid_sell_price
    pc,                  \* per request: "idle", "payback", "search", "done"
    input,               \* per request: the SolarPanelPayback fields
    wp,                  \* per request: the loop variable of the search
    min_payback_period,  \* per request: local of calculate_optimal_wp
    optimal_wp,          \* per request: local of calculate_optimal_wp
    evaluated,           \* per request: capacities passed to
                         \* calculate_total_cost so far, in call order
    response             \* per request: the "data" entry of the reply

shared == <<loaded, production_profile, consumption_profile, energy_cost,
            grid_price, grid_sell_price>>
locals == <<pc, input, wp, min_payback_period, optimal_wp, evaluated,
            response>>
vars == <<loaded, production_profile, consumption_profile, energy_cost,
          grid_price, grid_sell_price, pc, input, wp, min_payback_period,
          optimal_wp, evaluated, response>>

NoInput ==
    [annual_energy_consumption |-> 0, installation_cost |-> 0,
     wp_of_installation |-> 0]
NoResponse == [key |-> "none", val |-> RZero]

\* ------------------------------------------------------------------------
\* backend/services/electricity.py
\* ------------------------------------------------------------------------

GRID_FEE == Rat[12, 100]

\* _calculate_grid_prices: energy_cost["Euro"].mean() / 1000
EnergyCostKwh(cost) == RDiv[Rat[SeqSum(cost), Len(cost)], RInt(1000)]

\* _calculate_grid_prices: grid_price
GridPrice(cost) == RAdd[RMul[EnergyCostKwh(cost), Rat[120, 100]], GRID_FEE]

\* variant of GridSellPrice: the sale price is derived like the purchase price
GridSellPriceAsBuy(cost) ==
    RAdd[RMul[EnergyCostKwh(cost), Rat[120, 100]], GRID_FEE]

\* _calculate_grid_prices: grid_sell_price
GridSellPrice(cost) == RMul[EnergyCostKwh(cost), Rat[80, 100]]

\* variant of CalculateEnergyFlow: energy_to_grid is not clamped at zero
CalculateEnergyFlowUnclamped(total_energy_produced, total_energy_consumed) ==
    <<RMax0[RSub[total_energy_consumed, total_energy_produced]],
      RSub[total_energy_produced, total_energy_consumed]>>

\* _calculate_energy_flow: <<energy_from_grid, energy_to_grid>>
CalculateEnergyFlow(total_energy_produced, total_energy_consumed) ==
    <<RMax0[RSub[total_energy_consumed, total_energy_produced]],
      RMax0[RSub[total_energy_produced, total_energy_consumed]]>>

\* variant of TotalEnergyProduced: the capacity factor is left out
TotalEnergyProducedUnscaled(wp_of_installation) ==
    RDiv[RMul[RInt(SeqSum(production_profile)), Rat[25, 100]], RInt(1000)]

\* calculate_total_cost: total_energy_produced_kwh
TotalEnergyProduced(wp_of_installation) ==
    RDiv[RMul[RInt(SeqSum(production_profile) * wp_of_installation),
              Rat[25, 100]],
         RInt(1000)]

\* calculate_total_cost: total_energy_consumed
TotalEnergyConsumed(annual_energy_consumption) ==
    RInt(SeqSum(consumption_profile) * annual_energy_consumption)

\* calculate_total_cost: the returned total_cost
CalculateTotalCost(annual_energy_consumption, wp_of_installation) ==
    LET flow == CalculateEnergyFlow(
                    TotalEnergyProduced(wp_of_installation),
                    TotalEnergyConsumed(annual_energy_consumption))
        cost_from_grid == RMul[flow[1], grid_price]
        revenue_from_grid == RMul[flow[2], grid_sell_price]
    IN  RSub[cost_from_grid, revenue_from_grid]

\* variant of SharedAfterTotalCost: the call overwrites the sale price
SharedAfterTotalCostOverwrite ==
    /\ grid_sell_price' = grid_price
    /\ UNCHANGED <<loaded, production_profile, consumption_profile,
                   energy_cost, grid_price>>

\* calculate_total_cost assigns no attribute of the Electricity object
SharedAfterTotalCost == UNCHANGED shared

\* Electricity.__init__ through create_from_spreadsheets, run once when the
\* module is imported: loads the three columns and derives the grid prices
Startup ==
    /\ ~loaded
    /\ \E prod \in SeriesOver(ProductionValues),
          cons \in SeriesOver(ConsumptionValues),
          cost \in SeriesOver(PriceValues) :
            /\ production_profile' = prod
            /\ consumption_profile' = cons
            /\ energy_cost' = cost
            /\ grid_price' = GridPrice(cost)
            /\ grid_sell_price' = GridSellPrice(cost)
    /\ loaded' = TRUE
    /\ UNCHANGED locals

\* ------------------------------------------------------------------------
\* backend/services/solar_panel.py and the endpoints of backend/main.py
\* ------------------------------------------------------------------------

fixed_cost == 1000

RANGE_STEP == 10

\* calculate_optimal_wp: variable_cost_per_wp, computed before the loop
VariableCostPerWp(a) ==
    Rat[a.installation_cost - fixed_cost, a.wp_of_installation]

\* calculate_optimal_wp: total_cost of the candidate c
CandidateTotalCost(a, c) ==
    RAdd[RInt(fixed_cost), RMul[VariableCostPerWp(a), RInt(c)]]

\* calculate_optimal_wp: payback_period of the candidate c
CandidatePayback(a, c) ==
    LET annual_savings ==
            RNeg[CalculateTotalCost(a.annual_energy_consumption, c)]
    IN  RDiv[CandidateTotalCost(a, c), annual_savings]

\* variant of Improves: a tie replaces the best so far
ImprovesOrTies(payback_period, min_period) ==
    ~RLess[min_period, payback_period]

\* variant of Improves: the operands of the comparison are exchanged
ImprovesReversed(payback_period, min_period) ==
    RLess[min_period, payback_period]

\* calculate_optimal_wp: the test "payback_period < min_payback_period"
Improves(payback_period, min_period) == RLess[payback_period, min_period]

\* variant of InRange: the stop value of range() is 2 * wp_of_installation
InRangeExclusive(a, c) == c < 2 * a.wp_of_installation

\* calculate_optimal_wp: range(wp_of_installation,
\* 2 * wp_of_installation + 1, 10) still yields the value c
InRange(a, c) == c < 2 * a.wp_of_installation + 1

\* variant of NextCandidate: the step of range() is 1
NextCandidateByOne(c) == c + 1

\* calculate_optimal_wp: the value range() yields after c
NextCandidate(c) == c + RANGE_STEP

\* SolarPanelPayback.calculate_payback_time: the returned payback_period
CalculatePaybackTime(a) ==
    LET annual_cost_savings ==
            RNeg[CalculateTotalCost(a.annual_energy_consumption,
                                    a.wp_of_installation)]
    IN  RDiv[RInt(a.installation_cost), annual_cost_savings]

\* A validated request reaches an endpoint: get_solar_panel_payback builds
\* the SolarPanelPayback object.  For /calculate_optimal_wp the handler runs
\* up to the first await of the loop: min_payback_period = inf,
\* optimal_wp = 0, and range() yields its first value.
Submit(r) ==
    /\ loaded
    /\ pc[r] = "idle"
    /\ \E o \in Operations, cons \in Consumptions,
          cost \in InstallationCosts, cap \in Capacities :
            /\ input' = [input EXCEPT ![r] =
                  [annual_energy_consumption |-> cons,
                   installation_cost |-> cost,
                   wp_of_installation |-> cap]]
            /\ IF o = "payback_time"
               THEN /\ pc' = [pc EXCEPT ![r] = "payback"]
                    /\ UNCHANGED <<wp, min_payback_period, optimal_wp>>
               ELSE /\ pc' = [pc EXCEPT ![r] = "search"]
                    /\ wp' = [wp EXCEPT ![r] = cap]
                    /\ min_payback_period' =
                          [min_payback_period EXCEPT ![r] = PInf]
                    /\ optimal_wp' = [optimal_wp EXCEPT ![r] = 0]
    /\ UNCHANGED <<evaluated, response>>
    /\ UNCHANGED shared

\* /calculate_payback_time: calculate_payback_time runs to its return
PaybackTime(r) ==
    /\ pc[r] = "payback"
    /\ evaluated' = [evaluated EXCEPT
                        ![r] = <<input[r].wp_of_installation>>]
    /\ response' = [response EXCEPT ![r] =
                       [key |-> "payback_time",
                        val |-> CalculatePaybackTime(input[r])]]
    /\ pc' = [pc EXCEPT ![r] = "done"]
    /\ UNCHANGED <<input, wp, min_payback_period, optimal_wp>>
    /\ SharedAfterTotalCost

\* /calculate_optimal_wp: one iteration of the loop, from the await of
\* calculate_total_cost to the next value of range()
SearchStep(r) ==
    /\ pc[r] = "search"
    /\ InRange(input[r], wp[r])
    /\ LET payback_period == CandidatePayback(input[r], wp[r])
       IN  IF Improves(payback_period, min_payback_period[r])
           THEN /\ min_payback_period' =
                      [min_payback_period EXCEPT ![r] = payback_period]
                /\ optimal_wp' = [optimal_wp EXCEPT ![r] = wp[r]]
           ELSE UNCHANGED <<min_payback_period, optimal_wp>>
    /\ evaluated' = [evaluated EXCEPT ![r] = Append(@, wp[r])]
    /\ wp' = [wp EXCEPT ![r] = NextCandidate(@)]
    /\ UNCHANGED <<pc, input, response>>
    /\ SharedAfterTotalCost

\* /calculate_optimal_wp: range() is exhausted, optimal_wp is returned
SearchReturn(r) ==
    /\ pc[r] = "search"
    /\ ~InRange(input[r], wp[r])
    /\ response' = [response EXCEPT ![r] =
                       [key |-> "optimal_wp", val |-> RInt(optimal_wp[r])]]
    /\ pc' = [pc EXCEPT ![r] = "done"]
    /\ UNCHANGED <<input, wp, min_payback_period, optimal_wp, evaluated>>
    /\ UNCHANGED shared

\* the reply is sent; the SolarPanelPayback object and the locals are dropped
Respond(r) ==
    /\ pc[r] = "done"
    /\ pc' = [pc EXCEPT ![r] = "idle"]
    /\ input' = [input EXCEPT ![r] = NoInput]
    /\ wp' = [wp EXCEPT ![r] = 0]
    /\ min_payback_period' = [min_payback_period EXCEPT ![r] = PInf]
    /\ optimal_wp' = [optimal_wp EXCEPT ![r] = 0]
    /\ evaluated' = [evaluated EXCEPT ![r] = << >>]
    /\ response' = [response EXCEPT ![r] = NoResponse]
    /\ UNCHANGED shared

\* ------------------------------------------------------------------------
\* Specification
\* ------------------------------------------------------------------------

Init ==
    /\ loaded = FALSE
    /\ production_profile = << >>
    /\ consumption_profile = << >>
    /\ energy_cost = << >>
    /\ grid_price = RZero
    /\ grid_sell_price = RZero
    /\ pc = [r \in Requests |-> "idle"]
    /\ input = [r \in Requests |-> NoInput]
    /\ wp = [r \in Requests |-> 0]
    /\ min_payback_period = [r \in Requests |-> PInf]
    /\ optimal_wp = [r \in Requests |-> 0]
    /\ evaluated = [r \in Requests |-> << >>]
    /\ response = [r \in Requests |-> NoResponse]

Next ==
    \/ Startup
    \/ \E r \in Requests : Submit(r)
    \/ \E r \in Requests : PaybackTime(r)
    \/ \E r \in Requests : SearchStep(r)
    \/ \E r \in Requests : SearchReturn(r)
    \/ \E r \in Requests : Respond(r)

Spec == Init /\ [][Next]_vars

\* calculate_optimal_wp run from its first statement to its return with no
\* other request in between: the loop state after the candidates before c is
\* (min_period, best)
RECURSIVE RunSearch(_, _, _, _)
RunSearch(a, c, min_period, best) ==
    IF InRange(a, c)
    THEN LET payback_period == CandidatePayback(a, c)
         IN  IF Improves(payback_period, min_period)
             THEN RunSearch(a, NextCandidate(c), payback_period, c)
             ELSE RunSearch(a, NextCandidate(c), min_period, best)
    ELSE best

CalculateOptimalWp(a) == RunSearch(a, a.wp_of_installation, PInf, 0)

\* one step of the handler of request r
Run(r) == PaybackTime(r) \/ SearchStep(r) \/ SearchReturn(r)

\* reference spreadsheets of one row each
SingleRowData ==
    loaded => /\ Len(production_profile) = 1
              /\ Len(consumption_profile) = 1
              /\ Len(energy_cost) = 1

\* The event loop resumes every handler that is ready to run.  The behaviours
\* are those of Spec over single-row reference data.
LiveSpec ==
    /\ Init
    /\ [][Next /\ SingleRowData']_vars
    /\ \A r \in Requests : WF_vars(Run(r))

\* ------------------------------------------------------------------------
\* Properties
\* ------------------------------------------------------------------------

\* request r has returned from calculate_payback_time
ReturnedPayback(r) == pc[r] = "done" /\ response[r].key = "payback_time"

\* request r has returned from calculate_optimal_wp
ReturnedWp(r) == pc[r] = "done" /\ response[r].key = "optimal_wp"

\* request r is in calculate_optimal_wp or has returned from it
InSearch(r) == pc[r] = "search" \/ ReturnedWp(r)

\* annual savings of an installation of capacity c
AnnualSavings(a, c) == RNeg[CalculateTotalCost(a.annual_energy_consumption, c)]

\* the capacities in steps of 10 from the hint up to twice the hint
Candidates(a) ==
    {c \in a.wp_of_installation .. 2 * a.wp_of_installation :
        (c - a.wp_of_installation) % RANGE_STEP = 0}

\* every candidate of the search has zero or negative annual savings
NoCandidatePays(a) ==
    \A c \in Candidates(a) : ~FinLess[RZero, AnnualSavings(a, c)]

\* C1: when the annual savings of the requested installation are zero or
\* negative, calculate_payback_time returns a not-payable result: the value
\* returned is an infinity or another value that no payable installation
\* yields, never a negative number of years and never nan.
C1_NotPayableIsExplicit ==
    \A r \in Requests :
        (/\ ReturnedPayback(r)
         /\ ~FinLess[RZero, AnnualSavings(input[r],
                                          input[r].wp_of_installation)])
        => \/ response[r].val.k \in {"pinf", "ninf"}
           \/ response[r].val.k = "fin" /\ response[r].val.n >= 0

\* C2: the capacity calculate_optimal_wp returns is a candidate, no candidate
\* has a smaller payback period, and no candidate of lower capacity has the
\* same payback period.
C2_ReturnsFirstMinimum ==
    \A r \in Requests :
        ReturnedWp(r) =>
            /\ response[r].val.n \in Candidates(input[r])
            /\ \A least \in {CandidatePayback(input[r], response[r].val.n)} :
                  \A c \in Candidates(input[r]) :
                      \A payback \in {CandidatePayback(input[r], c)} :
                          /\ ~RLess[payback, least]
                          /\ c < response[r].val.n => ~REq[payback, least]

\* C2 witness: a search has returned the lower of two candidates that have
\* the same finite payback period
C2_Witness ==
    \E r \in Requests :
        /\ ReturnedWp(r)
        /\ \E c \in Candidates(input[r]) :
              /\ c > response[r].val.n
              /\ CandidatePayback(input[r], c).k = "fin"
              /\ REq[CandidatePayback(input[r], c),
                     CandidatePayback(input[r], response[r].val.n)]

\* C3: the capacity calculate_optimal_wp returns is one of the candidates
\* hint, hint + 10, ... not above twice the hint; it is never 0.
C3_ReturnsACandidate ==
    \A r \in Requests :
        ReturnedWp(r) =>
            /\ response[r].val.k = "fin"
            /\ response[r].val.d = 1
            /\ response[r].val.n # 0
            /\ response[r].val.n \in Candidates(input[r])

\* C3 witness: a search has returned although none of its candidates has
\* positive annual savings, one of them having zero savings
C3_Witness ==
    \E r \in Requests :
        /\ ReturnedWp(r)
        /\ NoCandidatePays(input[r])
        /\ \E c \in Candidates(input[r]) : AnnualSavings(input[r], c).n = 0

\* C4: when no candidate has positive annual savings, calculate_optimal_wp
\* returns the documented fallback: the smallest candidate (the hint), or
\* the no-feasible-capacity value 0.
C4_FallbackWhenNothingPays ==
    \A r \in Requests :
        (ReturnedWp(r) /\ NoCandidatePays(input[r]))
        => \/ response[r].val = RInt(input[r].wp_of_installation)
           \/ response[r].val = RInt(0)

\* C5 as stated: the hint is evaluated first, consecutive candidates differ
\* by 10, and twice the hint is evaluated.
C5_TwiceHintEvaluated ==
    \A r \in Requests :
        ReturnedWp(r) =>
            /\ evaluated[r][1] = input[r].wp_of_installation
            /\ \A i \in 1..(Len(evaluated[r]) - 1) :
                  evaluated[r][i + 1] = evaluated[r][i] + 10
            /\ \E i \in 1..Len(evaluated[r]) :
                  evaluated[r][i] = 2 * input[r].wp_of_installation

\* C5 amended: the hint is evaluated first, consecutive candidates differ by
\* 10, none exceeds twice the hint, and the search returns only when the
\* next candidate would exceed twice the hint; so twice the hint is
\* evaluated exactly when the hint is a multiple of 10.
C5_CandidatesInSteps ==
    \A r \in Requests :
        InSearch(r) =>
            LET h == input[r].wp_of_installation
                n == Len(evaluated[r])
            IN  /\ \A i \in 1..n : evaluated[r][i] = h + 10 * (i - 1)
                /\ \A i \in 1..n : evaluated[r][i] <= 2 * h
                /\ ReturnedWp(r) =>
                      /\ n >= 1
                      /\ evaluated[r][n] + 10 > 2 * h
                      /\ (\E i \in 1..n : evaluated[r][i] = 2 * h)
                            <=> (h % 10 = 0)

\* C5 witness: a search over a hint that is a multiple of 10 has returned
\* after evaluating twice the hint
C5_Witness ==
    \E r \in Requests :
        /\ ReturnedWp(r)
        /\ Len(evaluated[r]) >= 2
        /\ evaluated[r][Len(evaluated[r])] = 2 * input[r].wp_of_installation
        /\ \E q \in Requests :
              /\ ReturnedWp(q)
              /\ input[q].wp_of_installation % 10 # 0

\* the energy flow of the i-th call of calculate_total_cost of request r
FlowOfCall(r, i) ==
    CalculateEnergyFlow(
        TotalEnergyProduced(evaluated[r][i]),
        TotalEnergyConsumed(input[r].annual_energy_consumption))

\* the latest call of calculate_total_cost of request r, if there is one
LatestCall(r) == {Len(evaluated[r])} \ {0}

\* C6: in every call of calculate_total_cost with non-negative energy totals
\* (each call is checked when it is the latest of its request),
\* energy_from_grid and energy_to_grid are non-negative, at most one of them
\* is nonzero, both are zero exactly when produced equals consumed, and
\* energy_from_grid - energy_to_grid = consumed - produced.
C6_EnergyNetting ==
    \A r \in Requests : \A i \in LatestCall(r) :
        \A produced \in {TotalEnergyProduced(evaluated[r][i])},
           consumed \in
               {TotalEnergyConsumed(input[r].annual_energy_consumption)} :
            \A flow \in {CalculateEnergyFlow(produced, consumed)} :
                (produced.n >= 0 /\ consumed.n >= 0) =>
                    /\ flow[1].n >= 0
                    /\ flow[2].n >= 0
                    /\ flow[1].n = 0 \/ flow[2].n = 0
                    /\ (flow[1].n = 0 /\ flow[2].n = 0)
                          <=> (produced = consumed)
                    /\ RSub[flow[1], flow[2]] = RSub[consumed, produced]

\* C6 witness: one request has exported energy in a call while another has
\* imported energy in a call
C6_Witness ==
    \E r, q \in Requests :
        /\ \E i \in 1..Len(evaluated[r]) : FlowOfCall(r, i)[2].n > 0
        /\ \E j \in 1..Len(evaluated[q]) : FlowOfCall(q, j)[1].n > 0

\* for the capacities c1 < c2 of two calls of one request, the larger
\* capacity produces strictly more energy
ProducesMore(r, i, j) ==
    FinLess[TotalEnergyProduced(evaluated[r][i]),
            TotalEnergyProduced(evaluated[r][j])]

\* for the capacities c1 < c2 of two calls of one request, the larger
\* capacity does not cost more
CostsNoMore(r, i, j) ==
    ~FinLess[CalculateTotalCost(input[r].annual_energy_consumption,
                                evaluated[r][i]),
             CalculateTotalCost(input[r].annual_energy_consumption,
                                evaluated[r][j])]

\* C7 as stated: for every loaded production and wholesale price series,
\* a larger capacity produces strictly more energy and does not cost more.
C7_MonotoneForAllSeries ==
    \A r \in Requests : \A i, j \in 1..Len(evaluated[r]) :
        evaluated[r][i] < evaluated[r][j] =>
            ProducesMore(r, i, j) /\ CostsNoMore(r, i, j)

\* C7 amended: when the production series has a positive sum, a larger
\* capacity produces strictly more energy; when moreover the mean wholesale
\* price is not negative, the larger capacity does not cost more.  Each call
\* is compared with the earlier calls of its request when it is the latest.
C7_MonotoneForPositiveSeries ==
    \A r \in Requests : \A j \in LatestCall(r) : \A i \in 1..j :
        (evaluated[r][i] < evaluated[r][j]
            /\ SeqSum(production_profile) > 0) =>
                /\ ProducesMore(r, i, j)
                /\ SeqSum(energy_cost) >= 0 => CostsNoMore(r, i, j)

\* C7 witness: with a positive production sum and a non-negative mean price,
\* a search has evaluated two capacities and the larger one costs less
C7_Witness ==
    /\ loaded
    /\ SeqSum(production_profile) > 0
    /\ SeqSum(energy_cost) >= 0
    /\ \E r \in Requests : \E i, j \in 1..Len(evaluated[r]) :
          /\ evaluated[r][i] < evaluated[r][j]
          /\ FinLess[CalculateTotalCost(input[r].annual_energy_consumption,
                                        evaluated[r][j]),
                     CalculateTotalCost(input[r].annual_energy_consumption,
                                        evaluated[r][i])]

\* the wholesale price column holds no negative value
NonNegativePrices == \A i \in 1..Len(energy_cost) : energy_cost[i] >= 0

\* C8: once the grid prices are calculated from a nonempty wholesale price
\* series without negative values, grid_sell_price < grid_price, in every
\* state from then on.
C8_SellBelowBuy ==
    (loaded /\ NonNegativePrices) => FinLess[grid_sell_price, grid_price]

\* C8 witness: the prices come from a series without negative values and
\* a request has been answered since
C8_Witness ==
    /\ loaded
    /\ NonNegativePrices
    /\ \E r \in Requests : ReturnedWp(r)

\* C9 as stated: the number of candidates evaluated is at most
\* (capacity_hint + 1) / 10.
C9_AtMostHintPlusOneTenth ==
    \A r \in Requests :
        InSearch(r) =>
            10 * Len(evaluated[r]) <= input[r].wp_of_installation + 1

\* the number of candidates evaluated by request r is at most
\* floor(capacity_hint / 10) + 1, and exactly that when the search returns
IterationBound(r) ==
    InSearch(r) =>
        /\ Len(evaluated[r]) <= input[r].wp_of_installation \div 10 + 1
        /\ ReturnedWp(r) =>
              Len(evaluated[r]) = input[r].wp_of_installation \div 10 + 1

\* C9 amended: every search terminates, and the number of candidates it
\* evaluates is at most floor(capacity_hint / 10) + 1.
C9_TerminatesWithinBound ==
    /\ [](\A r \in Requests : IterationBound(r))
    /\ \A r \in Requests : (pc[r] = "search") ~> (pc[r] = "done")

\* C9 witness: a search has returned after more than (hint + 1) / 10
\* iterations, three of them
C9_Witness ==
    \E r \in Requests :
        /\ ReturnedWp(r)
        /\ Len(evaluated[r]) = 3
        /\ 10 * Len(evaluated[r]) > input[r].wp_of_installation + 1

\* what request r returns when it runs with no other request in progress
ResponseAlone(r) ==
    IF response[r].key = "payback_time"
    THEN [key |-> "payback_time", val |-> CalculatePaybackTime(input[r])]
    ELSE [key |-> "optimal_wp", val |-> RInt(CalculateOptimalWp(input[r]))]

\* C10: after startup no step changes the three series or the grid prices;
\* every request returns what it returns when run alone, and two requests
\* with the same arguments return the same result.
C10_SharedStateReadOnly ==
    /\ [][loaded => UNCHANGED <<production_profile, consumption_profile,
                               energy_cost, grid_price, grid_sell_price>>]_vars
    /\ [](\A r \in Requests :
            pc[r] = "done" => response[r] = ResponseAlone(r))
    /\ [](\A r, q \in Requests :
            (pc[r] = "done" /\ pc[q] = "done" /\ input[r] = input[q]
                /\ response[r].key = response[q].key)
            => response[r] = response[q])

\* C10 witness: two searches with the same arguments have both returned
\* after being in their loops at the same time
C10_Witness ==
    /\ ReturnedWp("r1")
    /\ ReturnedWp("r2")
    /\ input["r1"] = input["r2"]
    /\ Len(evaluated["r1"]) >= 2

====
